---- MODULE Spec2Model ----
(***************************************************************************)
(* Kalshi-Sentinel: the price watchers of src/src/alert-manager.ts,        *)
(* src/src/stoploss-manager.ts and src/src/websocket-alert-manager.ts.     *)
(*                                                                         *)
(* A watcher is one WebSocket created by startAlert / startStopLoss /      *)
(* startPositionAlert.  Each manager keeps a Map from the watcher id       *)
(* string to the socket.  Socket                                           *)
(* callbacks (open, message, close) and the continuations of awaited       *)
(* network calls run one at a time on the Node event loop, in any order    *)
(* the network produces; each is one action here.                          *)
(*                                                                         *)
(* Strings are sequences of one-character strings, so that the id          *)
(* `${userId}-${marketTicker}-${side}` is a real concatenation.  Prices    *)
(* are integers in millionths of a dollar, position sizes in hundredths    *)
(* of a contract.                                                          *)
(***************************************************************************)
EXTENDS Integers, Sequences, FiniteSets, TLC

VARIABLES
    ws,               \* every WebSocket ever constructed, by creation order
    activeAlerts,     \* AlertManager.activeAlerts: id -> index into ws
    activeStopLosses, \* StopLossManager.activeStopLosses: id -> index into ws
    discordClient,    \* the managers' discordClient is set (non-null)
    positionAlerts    \* websocket-alert-manager.ts activeAlerts: key -> index

vars == <<ws, activeAlerts, activeStopLosses, discordClient, positionAlerts>>

----------------------------------------------------------------------------
(* Bounds of the model *)

MaxSockets == 2     \* sockets a manager creates, in Spec
MaxAlerts == 3      \* sockets the alert manager creates, in SpecAlert
MaxWatchers == 1    \* sockets a manager creates, in SpecWatcher
MaxRuns == 2        \* trigger handlers explored per alert socket

----------------------------------------------------------------------------
(* Input domains *)

Undefined == -1     \* a JavaScript undefined number (absent JSON field)

Users == { <<"7">>, <<"7", "1">> }
Ticker == <<"K", "X">>
OtherTicker == <<"Z">>
Sides == { <<"y", "e", "s">>, <<"n", "o">> }
Yes == <<"y", "e", "s">>
No == <<"n", "o">>

\* the (user, side) pairs the commands are issued for
Watches == { <<<<"7">>, Yes>>, <<<<"7", "1">>, No>> }

BasePrice == 500000         \* $0.50
Percent == 10

\* (userId, side, basePrice, percentage) of start calls beyond the commands'
\* $0.50 at 10%: an alert 10% over $0.40, a stop-loss 7% under $0.50 and a
\* stop-loss 20% under $0.60
AlertSettings ==
    { <<w[1], w[2], BasePrice, Percent>> : w \in Watches }
    \cup { << <<"7">>, Yes, 400000, 10 >> }

StopLossSettings ==
    { <<w[1], w[2], BasePrice, Percent>> : w \in Watches }
    \cup { << <<"7", "1">>, No, 500000, 7 >>, << <<"7">>, No, 600000, 20 >> }

PrivateKeys == { "pem", "invalid" }

\* (yes_price, no_price) pairs of the ticks: at $0.45 a stop-loss of 10%
\* under $0.50 triggers, at $0.55 an alert of 10% over $0.50 does
CrossedQuotes == { <<450000, 550000>>, <<550000, 450000>> }
Quotes == CrossedQuotes
          \cup { <<500000, 500000>>, <<0, 450000>>, <<450000, 0>>,
                 <<Undefined, 550000>>, <<550000, Undefined>> }

\* ticks one millionth short of the $0.55 and $0.45 trigger prices, a tick
\* at $0.44 = 1.10 * $0.40 and $0.465 = 0.93 * $0.50, and a tick with
\* no_price $0.48 = 0.80 * $0.60
PolicyQuotes == CrossedQuotes
                \cup { <<549999, 450001>>, <<450001, 549999>>,
                       <<440000, 465000>>, <<520000, 480000>> }

\* messages of the errors the signed requests throw
Reasons == { <<"t", "i", "m", "e", "o", "u", "t">>, <<"4", "0", "1">> }
PositionNotFound == <<"P", "o", "s", "i", "t", "i", "o", "n", " ",
                      "n", "o", "t", " ", "f", "o", "u", "n", "d">>

\* position_fp strings the positions endpoint is given to return
PositionFps == { <<"5", ".", "0", "0">>, <<"2", ".", "5", "0">>,
                 <<"0", ".", "0", "0">>, <<"-", "3", ".", "0", "0">>, <<>> }

Position(t, fp) == [ticker |-> t, position_fp |-> fp]

\* bodies of GET /portfolio/positions: market_positions absent, or a list
PositionsResponses ==
    { [has |-> FALSE, market_positions |-> <<>>],
      [has |-> TRUE, market_positions |-> <<>>] }
    \cup { [has |-> TRUE, market_positions |-> <<Position(Ticker, fp)>>] :
             fp \in PositionFps }
    \cup { [has |-> TRUE, market_positions |->
              <<Position(OtherTicker, <<"9", ".", "0", "0">>),
                Position(Ticker, <<"5", ".", "0", "0">>)>>],
           [has |-> TRUE, market_positions |->
              <<Position(OtherTicker, <<"9", ".", "0", "0">>)>>] }

OrderId == <<"O", "1", "2", "3">>
NoStatus == <<>>
OrderStatuses == { <<"e", "x", "e", "c", "u", "t", "e", "d">>, NoStatus }

\* whether the order object of the venue's answer has a `quantity` field
\* (then it is the quantity posted)
Echoes == { TRUE, FALSE }

----------------------------------------------------------------------------
(* Pure helpers *)

\* `${userId}-${marketTicker}-${side}`
MakeId(userId, marketTicker, side) ==
    userId \o <<"-">> \o marketTicker \o <<"-">> \o side

Digits == { "0", "1", "2", "3", "4", "5", "6", "7", "8", "9" }

DigitVal(c) ==
    CASE c = "0" -> 0 [] c = "1" -> 1 [] c = "2" -> 2 [] c = "3" -> 3
      [] c = "4" -> 4 [] c = "5" -> 5 [] c = "6" -> 6 [] c = "7" -> 7
      [] c = "8" -> 8 [] c = "9" -> 9

\* length of the longest prefix of s[i..] made of digits
RECURSIVE DigitRun(_, _)
DigitRun(s, i) ==
    IF i <= Len(s) /\ s[i] \in Digits THEN 1 + DigitRun(s, i + 1) ELSE 0

\* value of the digits s[i..i+n-1] read as a decimal integer
RECURSIVE DigitsValue(_, _, _)
DigitsValue(s, i, n) ==
    IF n = 0 THEN 0
    ELSE 10 * DigitsValue(s, i, n - 1) + DigitVal(s[i + n - 1])

NaN == [nan |-> TRUE, v |-> 0]
Num(v) == [nan |-> FALSE, v |-> v]

\* parseFloat on a fixed-point string, in hundredths: optional sign, digits,
\* optional fraction; NaN when no number starts the string
ParseFloat(s) ==
    LET neg == Len(s) >= 1 /\ s[1] = "-"
        start == IF Len(s) >= 1 /\ s[1] \in {"-", "+"} THEN 2 ELSE 1
        n == DigitRun(s, start)
        dot == start + n
        hasFrac == dot <= Len(s) /\ s[dot] = "."
        m == IF hasFrac THEN DigitRun(s, dot + 1) ELSE 0
        int == DigitsValue(s, start, n)
        frac == IF m = 0 THEN 0
                ELSE IF m = 1 THEN 10 * DigitVal(s[dot + 1])
                ELSE DigitsValue(s, dot + 1, 2)
        mag == 100 * int + frac
    IN  IF n = 0 /\ m = 0 THEN NaN
        ELSE Num(IF neg THEN 0 - mag ELSE mag)

\* `x || 0` on a number
OrZero(x) == IF x.nan \/ x.v = 0 THEN 0 ELSE x.v

\* Array.prototype.find: index of the first element with the ticker, or 0
RECURSIVE FindFrom(_, _, _)
FindFrom(list, t, i) ==
    IF i > Len(list) THEN 0
    ELSE IF list[i].ticker = t THEN i
    ELSE FindFrom(list, t, i + 1)

Find(list, t) == FindFrom(list, t, 1)

\* mutant: the first position of the body is taken, whatever its ticker
PositionQuantityFirst(positionsData, marketTicker) ==
    IF ~positionsData.has \/ positionsData.market_positions = <<>> THEN 0
    ELSE OrZero(ParseFloat(positionsData.market_positions[1].position_fp))

\* the positionQuantity executeSellOrder derives from the positions body
PositionQuantity(positionsData, marketTicker) ==
    IF ~positionsData.has THEN 0
    ELSE LET i == Find(positionsData.market_positions, marketTicker)
         IN  IF i = 0 THEN 0
             ELSE OrZero(ParseFloat(
                      positionsData.market_positions[i].position_fp))

\* mutant: only an absent number is falsy, zero is a price
FalsyAbsent(x) == x = Undefined

\* `!x` on a number
Falsy(x) == x = Undefined \/ x = 0

DigitChar(d) ==
    CASE d = 0 -> "0" [] d = 1 -> "1" [] d = 2 -> "2" [] d = 3 -> "3"
      [] d = 4 -> "4" [] d = 5 -> "5" [] d = 6 -> "6" [] d = 7 -> "7"
      [] d = 8 -> "8" [] d = 9 -> "9"

\* `$${price.toFixed(4)}` for a price below $10, in millionths: rounded to
\* four decimals
DollarFixed4(price) ==
    LET t == (price + 50) \div 100
    IN  <<"$", DigitChar(t \div 10000), ".",
          DigitChar((t \div 1000) % 10), DigitChar((t \div 100) % 10),
          DigitChar((t \div 10) % 10), DigitChar(t % 10)>>

----------------------------------------------------------------------------
(* Map and WebSocket primitives *)

EmptyMap == [x \in {} |-> 0]


MapSet(m, k, v) == [x \in DOMAIN m \cup {k} |-> IF x = k THEN v ELSE m[x]]

MapDelete(m, k) == [x \in DOMAIN m \ {k} |-> m[x]]

\* new WebSocket(WS_URL, {headers}) with the closure variables of the start
\* call; subs, runs, posts and dms record what the socket's handlers have
\* sent and done
NewSocket(mgr, userId, marketTicker, side, basePrice, pct) ==
    [mgr |-> mgr, userId |-> userId, marketTicker |-> marketTicker,
     side |-> side, basePrice |-> basePrice, pct |-> pct,
     readyState |-> "CONNECTING", subs |-> <<>>,
     hasExecuted |-> FALSE, handlers |-> <<>>,
     runs |-> 0, posts |-> <<>>, dms |-> <<>>]

\* ws.close(): starts the closing handshake of a connecting or open socket
\* and does nothing to a closing or closed one; the 'close' event comes
\* later, from the event loop
WsClose(w) ==
    [w EXCEPT !.readyState =
                  IF @ \in {"CONNECTING", "OPEN"} THEN "CLOSING" ELSE @]

\* `${alert.discordId}-${alert.marketTicker}`
MakeKey(discordId, marketTicker) == discordId \o <<"-">> \o marketTicker

\* the key under which the socket's manager stores it
IdOf(w) ==
    IF w.mgr = "position" THEN MakeKey(w.userId, w.marketTicker)
    ELSE MakeId(w.userId, w.marketTicker, w.side)

Registry(mgr) ==
    CASE mgr = "alert" -> activeAlerts
      [] mgr = "stoploss" -> activeStopLosses
      [] mgr = "position" -> positionAlerts

\* String.prototype.startsWith
StartsWith(s, prefix) ==
    Len(prefix) <= Len(s) /\ SubSeq(s, 1, Len(prefix)) = prefix

RemoveAt(seq, i) == SubSeq(seq, 1, i - 1) \o SubSeq(seq, i + 1, Len(seq))

----------------------------------------------------------------------------
(* startAlert / startStopLoss *)

\* the sockets and the map after a start call: an existing entry's socket is
\* closed; signing with the private key may throw, and then the catch block
\* leaves the map as it was; otherwise the new socket is stored under the id
StartResult(mgr, reg, userId, marketTicker, side, basePrice, pct, privateKey) ==
    LET id == MakeId(userId, marketTicker, side)
        closed == IF id \in DOMAIN reg
                  THEN [ws EXCEPT ![reg[id]] = WsClose(@)]
                  ELSE ws
    IN  IF privateKey = "invalid"
        THEN [ws |-> closed, reg |-> reg]
        ELSE [ws |-> Append(closed, NewSocket(mgr, userId, marketTicker,
                                              side, basePrice, pct)),
              reg |-> MapSet(reg, id, Len(ws) + 1)]

\* number of sockets a manager has created
Created(mgr) == Cardinality({ s \in DOMAIN ws : ws[s].mgr = mgr })

StartAlert(userId, side, basePrice, pct, privateKey) ==
    /\ LET r == StartResult("alert", activeAlerts, userId, Ticker, side,
                            basePrice, pct, privateKey)
       IN  /\ ws' = r.ws
           /\ activeAlerts' = r.reg
    /\ UNCHANGED <<activeStopLosses, discordClient, positionAlerts>>

StartStopLoss(userId, side, basePrice, pct, privateKey) ==
    /\ LET r == StartResult("stoploss", activeStopLosses, userId, Ticker, side,
                            basePrice, pct, privateKey)
       IN  /\ ws' = r.ws
           /\ activeStopLosses' = r.reg
    /\ UNCHANGED <<activeAlerts, discordClient, positionAlerts>>

----------------------------------------------------------------------------
(* stopAlert / stopStopLoss, getActive..., stopAll... *)

\* mutant: stop closes the socket and leaves the entry in the map
StopResultKeepsEntry(socks, reg, id) ==
    IF id \in DOMAIN reg
    THEN [ws |-> [socks EXCEPT ![reg[id]] = WsClose(@)],
          reg |-> reg, value |-> TRUE]
    ELSE [ws |-> socks, reg |-> reg, value |-> FALSE]

\* mutant: stop also aborts the handlers of the socket it closes
StopResultAborts(socks, reg, id) ==
    IF id \in DOMAIN reg
    THEN [ws |-> [socks EXCEPT ![reg[id]] =
                     WsClose([@ EXCEPT !.handlers = <<>>])],
          reg |-> MapDelete(reg, id), value |-> TRUE]
    ELSE [ws |-> socks, reg |-> reg, value |-> FALSE]

\* stop on the sockets `socks` and the map `reg`: close the entry's socket
\* and delete the entry; the value returned is true iff there was an entry
StopResult(socks, reg, id) ==
    IF id \in DOMAIN reg
    THEN [ws |-> [socks EXCEPT ![reg[id]] = WsClose(@)],
          reg |-> MapDelete(reg, id), value |-> TRUE]
    ELSE [ws |-> socks, reg |-> reg, value |-> FALSE]

StopAlert(userId, marketTicker, side) ==
    /\ LET r == StopResult(ws, activeAlerts, MakeId(userId, marketTicker, side))
       IN  /\ ws' = r.ws
           /\ activeAlerts' = r.reg
    /\ UNCHANGED <<activeStopLosses, discordClient, positionAlerts>>

StopStopLoss(userId, marketTicker, side) ==
    /\ LET r == StopResult(ws, activeStopLosses,
                            MakeId(userId, marketTicker, side))
       IN  /\ ws' = r.ws
           /\ activeStopLosses' = r.reg
    /\ UNCHANGED <<activeAlerts, discordClient, positionAlerts>>

\* getActiveAlerts / getActiveStopLosses: keys that start with the user id
GetActive(reg, userId) == { id \in DOMAIN reg : StartsWith(id, userId) }

\* stopAll on the sockets `socks` and the map `reg`: close and delete every
\* listed entry; the value returned is how many were listed
StopAllResult(socks, reg, userId) ==
    LET ids == GetActive(reg, userId)
        listed == { reg[id] : id \in ids }
    IN  [ws |-> [i \in DOMAIN socks |->
                    IF i \in listed THEN WsClose(socks[i]) ELSE socks[i]],
         reg |-> [id \in DOMAIN reg \ ids |-> reg[id]],
         value |-> Cardinality(ids)]

StopAllAlerts(userId) ==
    /\ LET r == StopAllResult(ws, activeAlerts, userId)
       IN  /\ ws' = r.ws
           /\ activeAlerts' = r.reg
    /\ UNCHANGED <<activeStopLosses, discordClient, positionAlerts>>

StopAllStopLosses(userId) ==
    /\ LET r == StopAllResult(ws, activeStopLosses, userId)
       IN  /\ ws' = r.ws
           /\ activeStopLosses' = r.reg
    /\ UNCHANGED <<activeAlerts, discordClient, positionAlerts>>

----------------------------------------------------------------------------
(* Socket events *)

\* raw frames a socket may deliver: unparseable text, another message type
\* with and without data, a market_ticker message without data, and ticks
\* for either ticker
Tick(t, y, n) ==
    [parses |-> TRUE, type |-> "market_ticker", hasData |-> TRUE,
     market_ticker |-> t, yes_price |-> y, no_price |-> n]

Messages ==
    { [parses |-> FALSE, type |-> "", hasData |-> FALSE,
       market_ticker |-> <<>>, yes_price |-> Undefined, no_price |-> Undefined],
      [parses |-> TRUE, type |-> "subscribed", hasData |-> FALSE,
       market_ticker |-> <<>>, yes_price |-> Undefined, no_price |-> Undefined],
      [parses |-> TRUE, type |-> "market_ticker", hasData |-> FALSE,
       market_ticker |-> <<>>, yes_price |-> Undefined, no_price |-> Undefined] }
    \cup { Tick(Ticker, q[1], q[2]) : q \in Quotes }
    \cup { Tick(OtherTicker, q[1], q[2]) : q \in CrossedQuotes }
    \cup { [Tick(Ticker, q[1], q[2]) EXCEPT !.type = "orderbook_delta"] :
             q \in CrossedQuotes }

\* a socket emits 'message' once it has opened and until its 'close' event
CanReceive(w) ==
    \/ w.readyState = "OPEN"
    \/ w.readyState = "CLOSING" /\ w.subs # <<>>

\* mutant: the handler compares the price of every frame that parses
ReachesCheckUnfiltered(w, msg) ==
    /\ msg.parses
    /\ msg.hasData
    /\ ~Falsy(IF w.side = Yes THEN msg.yes_price ELSE msg.no_price)

\* the statements of the message handler up to `if (!currentPrice) return`:
\* TRUE when the handler goes on to compare the price (a parse error or a
\* missing data object throws into the handler's catch block)
ReachesCheck(w, msg) ==
    /\ msg.parses
    /\ msg.type = "market_ticker"
    /\ msg.hasData
    /\ msg.market_ticker = w.marketTicker
    /\ ~Falsy(IF w.side = Yes THEN msg.yes_price ELSE msg.no_price)

CurrentPrice(w, msg) == IF w.side = Yes THEN msg.yes_price ELSE msg.no_price

\* the frames on which the handler's try block throws: JSON.parse on text
\* that is not JSON, data.market_ticker on a market_ticker message whose
\* data is absent
Throws(msg) ==
    \/ ~msg.parses
    \/ msg.type = "market_ticker" /\ ~msg.hasData

\* mutant: the catch block gives the watcher up and closes its socket
HandlerCaughtCloses(w) == WsClose(w)

\* the socket after `catch (err) { console.error(...) }` of the message
\* handler: the error is logged
HandlerCaught(w) == w

\* The prices are IEEE-754 doubles.  A tick price is the double nearest to
\* its decimal; a trigger price basePrice * (1 + p / 100) is rounded three
\* times and can miss the double nearest to its decimal by one unit in the
\* last place.  Rounding(basePrice, factor) is the sign of that miss for
\* factor = 100 + p or 100 - p:
\*   0.5 * (1 + 10 / 100) = 0.55                 0.5 * (1 - 10 / 100) = 0.45
\*   0.4 * (1 + 10 / 100) = 0.44000000000000006  (0.44 is below it)
\*   0.5 * (1 - 7 / 100)  = 0.46499999999999997  (0.465 is above it)
\*   0.6 * (1 - 20 / 100) = 0.48
Rounding(basePrice, factor) ==
    CASE <<basePrice, factor>> = <<500000, 110>> -> 0
      [] <<basePrice, factor>> = <<500000, 90>> -> 0
      [] <<basePrice, factor>> = <<400000, 110>> -> 1
      [] <<basePrice, factor>> = <<500000, 93>> -> 0 - 1
      [] <<basePrice, factor>> = <<600000, 80>> -> 0

\* a computed price: the decimal in millionths and the sign of the rounding
Product(basePrice, factor) ==
    [micro |-> (basePrice * factor) \div 100,
     ulp |-> Rounding(basePrice, factor)]

\* currentPrice >= triggerPrice and currentPrice <= triggerPrice on doubles
Geq(currentPrice, triggerPrice) ==
    \/ currentPrice > triggerPrice.micro
    \/ currentPrice = triggerPrice.micro /\ triggerPrice.ulp <= 0

Leq(currentPrice, triggerPrice) ==
    \/ currentPrice < triggerPrice.micro
    \/ currentPrice = triggerPrice.micro /\ triggerPrice.ulp >= 0

\* currentPrice >= basePrice * (1 + percentageThreshold / 100)
AlertTriggered(w, currentPrice) ==
    Geq(currentPrice, Product(w.basePrice, 100 + w.pct))

\* mutant: the trigger test without the hasExecuted guard
StopLossTriggeredUnguarded(w, currentPrice) ==
    Leq(currentPrice, Product(w.basePrice, 100 - w.pct))

\* currentPrice <= basePrice * (1 - dropPercentage / 100) && !hasExecuted
StopLossTriggered(w, currentPrice) ==
    /\ Leq(currentPrice, Product(w.basePrice, 100 - w.pct))
    /\ ~w.hasExecuted

\* the command the 'open' handler sends
SubscribeCommand(w) ==
    [id |-> 1, cmd |-> "subscribe", channels |-> <<"market_ticker">>,
     market_ticker |-> w.marketTicker]

\* mutant: the 'open' handler sends nothing
OnOpenSilent(s) ==
    /\ s \in DOMAIN ws
    /\ ws[s].readyState = "CONNECTING"
    /\ ws' = [ws EXCEPT ![s].readyState = "OPEN"]
    /\ UNCHANGED <<activeAlerts, activeStopLosses, discordClient,
                   positionAlerts>>

\* ws.on('open'): send the subscribe command
OnOpen(s) ==
    /\ s \in DOMAIN ws
    /\ ws[s].readyState = "CONNECTING"
    /\ ws' = [ws EXCEPT ![s].readyState = "OPEN",
                        ![s].subs = Append(@, SubscribeCommand(ws[s]))]
    /\ UNCHANGED <<activeAlerts, activeStopLosses, discordClient, positionAlerts>>

\* mutant: the 'close' handler connects again and stores the new socket
OnCloseReconnects(s) ==
    /\ s \in DOMAIN ws
    /\ ws[s].readyState # "CLOSED"
    /\ ws' = Append([ws EXCEPT ![s].readyState = "CLOSED"],
                    NewSocket(ws[s].mgr, ws[s].userId, ws[s].marketTicker,
                              ws[s].side, ws[s].basePrice, ws[s].pct))
    /\ activeAlerts' = IF ws[s].mgr = "alert"
                       THEN MapSet(activeAlerts, IdOf(ws[s]), Len(ws) + 1)
                       ELSE activeAlerts
    /\ activeStopLosses' = IF ws[s].mgr = "stoploss"
                           THEN MapSet(activeStopLosses, IdOf(ws[s]),
                                       Len(ws) + 1)
                           ELSE activeStopLosses
    /\ UNCHANGED <<discordClient, positionAlerts>>

\* mutant: the 'close' handler leaves the map as it is
OnCloseKeeps(s) ==
    /\ s \in DOMAIN ws
    /\ ws[s].readyState # "CLOSED"
    /\ ws' = [ws EXCEPT ![s].readyState = "CLOSED"]
    /\ UNCHANGED <<activeAlerts, activeStopLosses, discordClient,
                   positionAlerts>>

\* mutant: the 'close' handler also tells the user that the watcher died
OnCloseNotifies(s) ==
    /\ s \in DOMAIN ws
    /\ ws[s].readyState # "CLOSED"
    /\ ws' = [ws EXCEPT ![s].readyState = "CLOSED",
                        ![s].dms = Append(@, [to |-> ws[s].userId,
                                              title |-> "closed"])]
    /\ activeAlerts' = MapDelete(activeAlerts, IdOf(ws[s]))
    /\ activeStopLosses' = MapDelete(activeStopLosses, IdOf(ws[s]))
    /\ positionAlerts' = MapDelete(positionAlerts, IdOf(ws[s]))
    /\ UNCHANGED discordClient

\* ws.on('close'), for any reason: failed handshake, remote close, network
\* loss, or the end of a closing handshake; deletes the id from the map
OnClose(s) ==
    /\ s \in DOMAIN ws
    /\ ws[s].readyState # "CLOSED"
    /\ ws' = [ws EXCEPT ![s].readyState = "CLOSED"]
    /\ CASE ws[s].mgr = "alert" ->
               /\ activeAlerts' = MapDelete(activeAlerts, IdOf(ws[s]))
               /\ UNCHANGED <<activeStopLosses, positionAlerts>>
         [] ws[s].mgr = "stoploss" ->
               /\ activeStopLosses' = MapDelete(activeStopLosses, IdOf(ws[s]))
               /\ UNCHANGED <<activeAlerts, positionAlerts>>
         [] ws[s].mgr = "position" ->
               /\ positionAlerts' = MapDelete(positionAlerts, IdOf(ws[s]))
               /\ UNCHANGED <<activeAlerts, activeStopLosses>>
    /\ UNCHANGED discordClient

----------------------------------------------------------------------------
(* Notifications *)

NoOrder == [has |-> FALSE, order_id |-> <<>>, quantity |-> 0, status |-> <<>>]
Order(id, q, st) == [has |-> TRUE, order_id |-> id, quantity |-> q, status |-> st]
NoError == [has |-> FALSE, text |-> <<>>]
ErrorMessage(text) == [has |-> TRUE, text |-> text]

\* truthiness of `errorMessage`
Truthy(errorMessage) == errorMessage.has /\ errorMessage.text # <<>>

\* the embed sendAlert builds and sends to the user fetched by alert.userId:
\* the watched side, the current price and the 'Current Price' field shown
AlertEmbed(w, currentPrice) ==
    [to |-> w.userId, title |-> "alert", side |-> w.side,
     currentPrice |-> currentPrice,
     shown |-> DollarFixed4(currentPrice),
     order |-> NoOrder, error |-> NoError]

\* the embed sendStopLossDM builds and sends to the user fetched by
\* stopLoss.userId: the title, and the order fields or the error field
StopLossEmbed(w, currentPrice, order, errorMessage) ==
    [to |-> w.userId,
     title |-> IF Truthy(errorMessage) THEN "error"
               ELSE IF order.has THEN "closed" ELSE "triggered",
     side |-> w.side, currentPrice |-> currentPrice,
     order |-> IF order.has THEN order ELSE NoOrder,
     error |-> IF ~order.has /\ Truthy(errorMessage) THEN errorMessage
               ELSE NoError]

\* values makeSignedGetRequest / makeSignedPostRequest throw
Thrown == { [isError |-> TRUE, message |-> r] : r \in Reasons }

\* mutant: the reason is dropped
CatchMessageUnknown(err) ==
    <<"U", "n", "k", "n", "o", "w", "n", " ", "e", "r", "r", "o", "r">>

\* err instanceof Error ? err.message : 'Unknown error'
CatchMessage(err) ==
    IF err.isError THEN err.message
    ELSE <<"U", "n", "k", "n", "o", "w", "n", " ", "e", "r", "r", "o", "r">>

\* how users.fetch + user.send end: sent, or thrown and caught inside
Deliveries == { "sent", "failed" }

\* mutant: a failed delivery throws out of the notification call into the
\* handler's catch block, past ws.close()
ResumedUnlessFailed(w, i, delivery) ==
    IF delivery = "failed"
    THEN [w EXCEPT !.handlers = RemoveAt(@, i)]
    ELSE WsClose([w EXCEPT !.handlers = RemoveAt(@, i)])

\* mutant: the resumed handler returns without calling ws.close()
ResumedOpen(w, i, delivery) == [w EXCEPT !.handlers = RemoveAt(@, i)]

\* mutant: the handler stays suspended in the notification call
ResumedSuspended(w, i, delivery) == w

\* the socket when its trigger handler resumes after the notification call:
\* sendAlert / sendStopLossDM catch a failed delivery and return normally,
\* and the handler goes on to ws.close()
Resumed(w, i, delivery) == WsClose([w EXCEPT !.handlers = RemoveAt(@, i)])

----------------------------------------------------------------------------
(* AlertManager: message handler and sendAlert *)

\* mutant: the trigger handler closes the socket and keeps the map entry
TeardownMapKeeps(reg, id) == reg

\* ws.close(); this.active....delete(id) at the end of a trigger handler
TeardownMap(reg, id) == MapDelete(reg, id)

\* ws.on('message') of startAlert.  A tick at or above the trigger price
\* calls sendAlert and suspends at its first await; without a Discord client
\* sendAlert returns at once and the handler closes the socket and deletes
\* the id in the same turn.
AlertOnMessage(s, msg) ==
    /\ s \in DOMAIN ws
    /\ ws[s].mgr = "alert"
    /\ CanReceive(ws[s])
    /\ LET w == ws[s]
           p == CurrentPrice(w, msg)
       IN  IF ReachesCheck(w, msg) /\ AlertTriggered(w, p)
           THEN /\ w.runs < MaxRuns
                /\ IF discordClient
                   THEN /\ ws' = [ws EXCEPT ![s] =
                                [w EXCEPT !.runs = @ + 1,
                                          !.dms = Append(@, AlertEmbed(w, p)),
                                          !.handlers = Append(@,
                                              [pc |-> "dm", currentPrice |-> p,
                                               quantity |-> 0])]]
                        /\ UNCHANGED activeAlerts
                   ELSE /\ ws' = [ws EXCEPT ![s] =
                                WsClose([w EXCEPT !.runs = @ + 1])]
                        /\ activeAlerts' = TeardownMap(activeAlerts, IdOf(w))
           ELSE IF Throws(msg)
           THEN /\ ws' = [ws EXCEPT ![s] = HandlerCaught(w)]
                /\ UNCHANGED activeAlerts
           ELSE UNCHANGED <<ws, activeAlerts>>
    /\ UNCHANGED <<activeStopLosses, discordClient, positionAlerts>>

\* sendAlert has finished (the market fetch, users.fetch and user.send have
\* returned or thrown into its catch block): the handler resumes with
\* ws.close() and activeAlerts.delete(alertId)
AlertNotified(s, i, delivery) ==
    /\ s \in DOMAIN ws
    /\ ws[s].mgr = "alert"
    /\ i \in DOMAIN ws[s].handlers
    /\ ws[s].handlers[i].pc = "dm"
    /\ delivery \in Deliveries
    /\ LET w == ws[s]
       IN  /\ ws' = [ws EXCEPT ![s] = Resumed(w, i, delivery)]
           /\ activeAlerts' = TeardownMap(activeAlerts, IdOf(w))
    /\ UNCHANGED <<activeStopLosses, discordClient, positionAlerts>>

----------------------------------------------------------------------------
(* StopLossManager: message handler, executeSellOrder, sendStopLossDM *)

\* mutant: only a negative size counts as no position
NoPositionNegative(positionQuantity) == positionQuantity < 0

\* if (positionQuantity <= 0)
NoPosition(positionQuantity) == positionQuantity <= 0

\* orderPayload
OrderPayload(w, positionQuantity) ==
    [ticker |-> w.marketTicker, side |-> w.side, type |-> "market",
     quantity |-> positionQuantity]

\* the socket after sendStopLossDM has been called by a handler
Notify(w, i, order, errorMessage) ==
    [w EXCEPT !.dms = Append(@, StopLossEmbed(w, w.handlers[i].currentPrice,
                                              order, errorMessage)),
              !.handlers[i].pc = "dm"]

\* ws.on('message') of startStopLoss.  The first tick at or below the
\* trigger price sets hasExecuted and enters executeSellOrder, which
\* suspends in makeSignedGetRequest; without a Discord client it returns at
\* once and the handler tears the watcher down in the same turn.
StopLossOnMessage(s, msg) ==
    /\ s \in DOMAIN ws
    /\ ws[s].mgr = "stoploss"
    /\ CanReceive(ws[s])
    /\ LET w == ws[s]
           p == CurrentPrice(w, msg)
       IN  IF ReachesCheck(w, msg) /\ StopLossTriggered(w, p)
           THEN IF discordClient
                THEN /\ ws' = [ws EXCEPT ![s] =
                             [w EXCEPT !.hasExecuted = TRUE,
                                       !.runs = @ + 1,
                                       !.handlers = Append(@,
                                           [pc |-> "get", currentPrice |-> p,
                                            quantity |-> 0])]]
                     /\ UNCHANGED activeStopLosses
                ELSE /\ ws' = [ws EXCEPT ![s] =
                             WsClose([w EXCEPT !.hasExecuted = TRUE,
                                               !.runs = @ + 1])]
                     /\ activeStopLosses' =
                            TeardownMap(activeStopLosses, IdOf(w))
           ELSE IF Throws(msg)
           THEN /\ ws' = [ws EXCEPT ![s] = HandlerCaught(w)]
                /\ UNCHANGED activeStopLosses
           ELSE UNCHANGED <<ws, activeStopLosses>>
    /\ UNCHANGED <<activeAlerts, discordClient, positionAlerts>>

\* the socket after makeSignedGetRequest has returned positionsData: without
\* a position the user is told so; otherwise the order is posted
AfterPositions(w, i, positionsData) ==
    LET positionQuantity == PositionQuantity(positionsData, w.marketTicker)
    IN  IF NoPosition(positionQuantity)
        THEN Notify(w, i, NoOrder, ErrorMessage(PositionNotFound))
        ELSE [w EXCEPT !.posts = Append(@, OrderPayload(w, positionQuantity)),
                       !.handlers[i].pc = "post",
                       !.handlers[i].quantity = positionQuantity]

PositionsReturn(s, i, positionsData) ==
    /\ s \in DOMAIN ws
    /\ i \in DOMAIN ws[s].handlers
    /\ ws[s].handlers[i].pc = "get"
    /\ ws' = [ws EXCEPT ![s] = AfterPositions(ws[s], i, positionsData)]
    /\ UNCHANGED <<activeAlerts, activeStopLosses, discordClient, positionAlerts>>

\* mutant: a failed submission is posted again instead of reported
CaughtRetries(w, i, err) ==
    IF w.handlers[i].pc = "post"
    THEN [w EXCEPT !.posts = Append(@, @[Len(@)])]
    ELSE Notify(w, i, NoOrder, ErrorMessage(err.message))

\* mutant: the catch block logs and sends nothing
CaughtSilently(w, i, err) == [w EXCEPT !.handlers[i].pc = "dm"]

\* catch (err) of executeSellOrder
Caught(w, i, err) == Notify(w, i, NoOrder, ErrorMessage(CatchMessage(err)))

\* makeSignedGetRequest throws (signing, network, HTTP status)
PositionsThrow(s, i, err) ==
    /\ s \in DOMAIN ws
    /\ i \in DOMAIN ws[s].handlers
    /\ ws[s].handlers[i].pc = "get"
    /\ ws' = [ws EXCEPT ![s] = Caught(ws[s], i, err)]
    /\ UNCHANGED <<activeAlerts, activeStopLosses, discordClient, positionAlerts>>

\* makeSignedPostRequest returns orderResult; orderResult.order is the order
\* the venue accepted: its id, its status, and the quantity posted when the
\* venue echoes it
OrderReturn(s, i, status, echo) ==
    /\ s \in DOMAIN ws
    /\ i \in DOMAIN ws[s].handlers
    /\ ws[s].handlers[i].pc = "post"
    /\ LET w == ws[s]
           order == Order(OrderId,
                          IF echo THEN w.handlers[i].quantity ELSE Undefined,
                          status)
       IN  ws' = [ws EXCEPT ![s] = Notify(w, i, order, NoError)]
    /\ UNCHANGED <<activeAlerts, activeStopLosses, discordClient, positionAlerts>>

\* makeSignedPostRequest throws
OrderThrow(s, i, err) ==
    /\ s \in DOMAIN ws
    /\ i \in DOMAIN ws[s].handlers
    /\ ws[s].handlers[i].pc = "post"
    /\ ws' = [ws EXCEPT ![s] = Caught(ws[s], i, err)]
    /\ UNCHANGED <<activeAlerts, activeStopLosses, discordClient, positionAlerts>>

\* sendStopLossDM has finished (sent, or failed and logged): executeSellOrder
\* returns and the handler resumes with ws.close() and
\* activeStopLosses.delete(stopLossId)
StopLossNotified(s, i, delivery) ==
    /\ s \in DOMAIN ws
    /\ ws[s].mgr = "stoploss"
    /\ i \in DOMAIN ws[s].handlers
    /\ ws[s].handlers[i].pc = "dm"
    /\ delivery \in Deliveries
    /\ LET w == ws[s]
       IN  /\ ws' = [ws EXCEPT ![s] = Resumed(w, i, delivery)]
           /\ activeStopLosses' = TeardownMap(activeStopLosses, IdOf(w))
    /\ UNCHANGED <<activeAlerts, discordClient, positionAlerts>>

----------------------------------------------------------------------------
(* websocket-alert-manager.ts: startPositionAlert and its callbacks *)

\* mutant: a start for an active key closes the stored socket and stores a
\* new one, as startAlert does
StartPositionResultSupersedes(discordId, marketTicker, side, basePrice, pct) ==
    LET key == MakeKey(discordId, marketTicker)
        closed == IF key \in DOMAIN positionAlerts
                  THEN [ws EXCEPT ![positionAlerts[key]] = WsClose(@)]
                  ELSE ws
    IN  [ws |-> Append(closed, NewSocket("position", discordId, marketTicker,
                                         side, basePrice, pct)),
         reg |-> MapSet(positionAlerts, key, Len(ws) + 1)]

\* the sockets and the map after startPositionAlert: a key that is active
\* is rejected; otherwise a socket is created and stored under the key.
\* pct is alert.threshold in percent.
StartPositionResult(discordId, marketTicker, side, basePrice, pct) ==
    LET key == MakeKey(discordId, marketTicker)
    IN  IF key \in DOMAIN positionAlerts
        THEN [ws |-> ws, reg |-> positionAlerts]
        ELSE [ws |-> Append(ws, NewSocket("position", discordId, marketTicker,
                                          side, basePrice, pct)),
              reg |-> MapSet(positionAlerts, key, Len(ws) + 1)]

StartPositionAlert(discordId, side, basePrice, pct) ==
    /\ LET r == StartPositionResult(discordId, Ticker, side, basePrice, pct)
       IN  /\ ws' = r.ws
           /\ positionAlerts' = r.reg
    /\ UNCHANGED <<activeAlerts, activeStopLosses, discordClient>>

StopPositionAlert(discordId, marketTicker) ==
    /\ LET r == StopResult(ws, positionAlerts,
                            MakeKey(discordId, marketTicker))
       IN  /\ ws' = r.ws
           /\ positionAlerts' = r.reg
    /\ UNCHANGED <<activeAlerts, activeStopLosses, discordClient>>

StopAllAlertsForUser(discordId) ==
    /\ LET r == StopAllResult(ws, positionAlerts, discordId)
       IN  /\ ws' = r.ws
           /\ positionAlerts' = r.reg
    /\ UNCHANGED <<activeAlerts, activeStopLosses, discordClient>>

\* the statements of the handler up to the trigger test: the price is not
\* tested for being falsy, but currentPrice.toFixed(4) in the log line
\* throws into the catch block when the price is absent
PositionReachesCheck(w, msg) ==
    /\ msg.parses
    /\ msg.type = "market_ticker"
    /\ msg.hasData
    /\ msg.market_ticker = w.marketTicker
    /\ CurrentPrice(w, msg) # Undefined

\* mutant: the trigger test without the hasTriggered guard
PositionTriggeredUnguarded(w, currentPrice) ==
    Geq(currentPrice, Product(w.basePrice, 100 + w.pct))

\* currentPrice >= basePrice * (1 + threshold) && !hasTriggered
PositionTriggered(w, currentPrice) ==
    /\ Geq(currentPrice, Product(w.basePrice, 100 + w.pct))
    /\ ~w.hasExecuted

\* the direct message: the watched side and the current price
PositionDM(w, currentPrice) ==
    [to |-> w.userId, title |-> "alert", side |-> w.side,
     currentPrice |-> currentPrice,
     shown |-> DollarFixed4(currentPrice)]

\* ws.on('message') of startPositionAlert: the first tick at or above the
\* trigger price sets hasTriggered and suspends in fetchMarketInfo
PositionOnMessage(s, msg) ==
    /\ s \in DOMAIN ws
    /\ ws[s].mgr = "position"
    /\ CanReceive(ws[s])
    /\ LET w == ws[s]
           p == CurrentPrice(w, msg)
       IN  IF PositionReachesCheck(w, msg) /\ PositionTriggered(w, p)
           THEN ws' = [ws EXCEPT ![s] =
                        [w EXCEPT !.hasExecuted = TRUE,
                                  !.runs = @ + 1,
                                  !.handlers = Append(@,
                                      [pc |-> "dm", currentPrice |-> p,
                                       no_price |-> msg.no_price])]]
           ELSE IF Throws(msg)
           THEN ws' = [ws EXCEPT ![s] = HandlerCaught(w)]
           ELSE UNCHANGED ws
    /\ UNCHANGED <<activeAlerts, activeStopLosses, discordClient,
                   positionAlerts>>

\* fetchMarketInfo, users.fetch and user.send have ended: the message is
\* built and sent unless data.no_price.toFixed(4) throws on an absent
\* no_price (caught with the delivery failures); then ws.close() and
\* activeAlerts.delete(alertKey)
PositionNotified(s, i, delivery) ==
    /\ s \in DOMAIN ws
    /\ ws[s].mgr = "position"
    /\ i \in DOMAIN ws[s].handlers
    /\ ws[s].handlers[i].pc = "dm"
    /\ delivery \in Deliveries
    /\ LET w == ws[s]
           h == w.handlers[i]
           sent == IF h.no_price = Undefined THEN w.dms
                   ELSE Append(w.dms, PositionDM(w, h.currentPrice))
       IN  /\ ws' = [ws EXCEPT ![s] =
                   Resumed([w EXCEPT !.dms = sent], i, delivery)]
           /\ positionAlerts' = TeardownMap(positionAlerts, IdOf(w))
    /\ UNCHANGED <<activeAlerts, activeStopLosses, discordClient>>

----------------------------------------------------------------------------
(* The program *)

\* the state when the first command can arrive: the ready handler has given
\* both managers the Discord client, and no watcher exists
Init ==
    /\ ws = <<>>
    /\ activeAlerts = EmptyMap
    /\ activeStopLosses = EmptyMap
    /\ discordClient = TRUE
    /\ positionAlerts = EmptyMap

\* socket events of either manager
NextSocket ==
    \/ \E s \in DOMAIN ws : OnOpen(s)
    \/ \E s \in DOMAIN ws : OnClose(s)

\* the calls and handlers of a manager other than start, with the frames
\* `messages` arriving on the sockets and the bodies `responses`, the errors
\* `thrown` and the order statuses `statuses` coming back from the venue
AlertSteps(messages) ==
    \/ \E w \in Watches : StopAlert(w[1], Ticker, w[2])
    \/ \E u \in Users : StopAllAlerts(u)
    \/ \E s \in DOMAIN ws, msg \in messages : AlertOnMessage(s, msg)
    \/ \E s \in DOMAIN ws, i \in 1..MaxRuns, d \in Deliveries :
           AlertNotified(s, i, d)

PositionSteps(messages) ==
    \/ \E w \in Watches : StopPositionAlert(w[1], Ticker)
    \/ \E u \in Users : StopAllAlertsForUser(u)
    \/ \E s \in DOMAIN ws, msg \in messages : PositionOnMessage(s, msg)
    \/ \E s \in DOMAIN ws, d \in Deliveries : PositionNotified(s, 1, d)

StopLossSteps(messages, responses, thrown, statuses, echoes) ==
    \/ \E w \in Watches : StopStopLoss(w[1], Ticker, w[2])
    \/ \E u \in Users : StopAllStopLosses(u)
    \/ \E s \in DOMAIN ws, msg \in messages : StopLossOnMessage(s, msg)
    \/ \E s \in DOMAIN ws, r \in responses : PositionsReturn(s, 1, r)
    \/ \E s \in DOMAIN ws, e \in thrown : PositionsThrow(s, 1, e)
    \/ \E s \in DOMAIN ws, st \in statuses, echo \in echoes :
           OrderReturn(s, 1, st, echo)
    \/ \E s \in DOMAIN ws, e \in thrown : OrderThrow(s, 1, e)
    \/ \E s \in DOMAIN ws, d \in Deliveries : StopLossNotified(s, 1, d)

\* alertManager and stopLossManager are separate objects with separate maps
\* and sockets, and no handler of one reads the other's state: a behaviour
\* starts watchers of one of them
Exercised(mgr) == \A s \in DOMAIN ws : ws[s].mgr = mgr

\* Spec: either manager with up to MaxSockets watchers; the sockets deliver
\* an unparseable frame and four ticks, the venue answers with one position
\* of 5.00 or with none, one error and one status
SomeMessages ==
    { [parses |-> FALSE, type |-> "", hasData |-> FALSE,
       market_ticker |-> <<>>, yes_price |-> Undefined, no_price |-> Undefined],
      Tick(Ticker, 500000, 500000),
      Tick(OtherTicker, 450000, 550000) }
    \cup { Tick(Ticker, q[1], q[2]) : q \in CrossedQuotes }

SomeResponses ==
    { [has |-> TRUE, market_positions |-> <<>>],
      [has |-> TRUE, market_positions |->
          <<Position(Ticker, <<"5", ".", "0", "0">>)>>] }

SomeThrown == { [isError |-> TRUE, message |-> <<"4", "0", "1">>] }

SomeStatuses == { <<"e", "x", "e", "c", "u", "t", "e", "d">> }

Next ==
    \/ NextSocket
    \/ \E w \in Watches, k \in PrivateKeys :
           /\ Exercised("alert")
           /\ Created("alert") < MaxSockets
           /\ StartAlert(w[1], w[2], BasePrice, Percent, k)
    \/ AlertSteps(SomeMessages)
    \/ \E w \in Watches, k \in PrivateKeys :
           /\ Exercised("stoploss")
           /\ Created("stoploss") < MaxSockets
           /\ StartStopLoss(w[1], w[2], BasePrice, Percent, k)
    \/ StopLossSteps(SomeMessages, SomeResponses, SomeThrown, SomeStatuses,
                     {TRUE})

Spec == Init /\ [][Next]_vars

\* SpecAlert: the alert manager alone, with up to MaxAlerts watchers
NextAlert ==
    \/ NextSocket
    \/ \E w \in Watches, k \in PrivateKeys :
           Created("alert") < MaxAlerts /\ StartAlert(w[1], w[2], BasePrice, Percent, k)
    \/ AlertSteps(SomeMessages)

SpecAlert == Init /\ [][NextAlert]_vars

\* SpecWatcher: either manager with up to MaxWatchers watchers, every frame
\* and every answer of the venue
NextWatcher ==
    \/ NextSocket
    \/ \E w \in Watches, k \in PrivateKeys :
           /\ Exercised("alert")
           /\ Created("alert") < MaxWatchers
           /\ StartAlert(w[1], w[2], BasePrice, Percent, k)
    \/ AlertSteps(Messages)
    \/ \E w \in Watches, k \in PrivateKeys :
           /\ Exercised("stoploss")
           /\ Created("stoploss") < MaxWatchers
           /\ StartStopLoss(w[1], w[2], BasePrice, Percent, k)
    \/ StopLossSteps(Messages, PositionsResponses, Thrown, OrderStatuses,
                     Echoes)
    \/ \E w \in Watches :
           /\ Exercised("position")
           /\ Created("position") < MaxWatchers
           /\ StartPositionAlert(w[1], w[2], BasePrice, Percent)
    \/ PositionSteps(Messages)

SpecWatcher == Init /\ [][NextWatcher]_vars

\* SpecWatcherFair: SpecWatcher where every awaited call of a trigger
\* handler ends (returns or throws) and its continuation is run
PositionsEnd ==
    \E s \in DOMAIN ws :
        \/ \E r \in PositionsResponses : PositionsReturn(s, 1, r)
        \/ \E e \in Thrown : PositionsThrow(s, 1, e)

OrderEnd ==
    \E s \in DOMAIN ws :
        \/ \E st \in OrderStatuses, echo \in Echoes :
               OrderReturn(s, 1, st, echo)
        \/ \E e \in Thrown : OrderThrow(s, 1, e)

NotifyEnd ==
    \E s \in DOMAIN ws, i \in 1..MaxRuns, d \in Deliveries :
        \/ StopLossNotified(s, i, d)
        \/ AlertNotified(s, i, d)
        \/ PositionNotified(s, i, d)

SpecWatcherFair ==
    /\ SpecWatcher
    /\ WF_vars(PositionsEnd) /\ WF_vars(OrderEnd) /\ WF_vars(NotifyEnd)

\* SpecPolicy: either manager with up to MaxWatchers watchers, started at
\* any of the settings, and ticks at and next to the trigger prices
PolicyMessages == { Tick(Ticker, q[1], q[2]) : q \in PolicyQuotes }

NextPolicy ==
    \/ NextSocket
    \/ \E c \in AlertSettings, k \in PrivateKeys :
           /\ Exercised("alert")
           /\ Created("alert") < MaxWatchers
           /\ StartAlert(c[1], c[2], c[3], c[4], k)
    \/ AlertSteps(PolicyMessages)
    \/ \E c \in StopLossSettings, k \in PrivateKeys :
           /\ Exercised("stoploss")
           /\ Created("stoploss") < MaxWatchers
           /\ StartStopLoss(c[1], c[2], c[3], c[4], k)
    \/ StopLossSteps(PolicyMessages, SomeResponses, SomeThrown, OrderStatuses,
                     Echoes)

SpecPolicy == Init /\ [][NextPolicy]_vars

-----
(* Properties *)

StopLossSockets == { s \in DOMAIN ws : ws[s].mgr = "stoploss" }
AlertSockets == { s \in DOMAIN ws : ws[s].mgr = "alert" }

\* close() has not been called on the socket and it has not closed
Live(w) == w.readyState \in {"CONNECTING", "OPEN"}

\* the socket is the value of some key of its manager's map
Registered(s) ==
    \E id \in DOMAIN Registry(ws[s].mgr) : Registry(ws[s].mgr)[id] = s

\* the stop-loss watcher has triggered and its handler has run to its end
PipelineDone(w) == w.hasExecuted /\ w.handlers = <<>>

\* C1: for every watcher key of a manager, at most one socket created for
\* that key is live (created, close() not called, not closed).
C1_AtMostOneLivePerKey ==
    \A a \in DOMAIN ws, b \in DOMAIN ws :
        (/\ a # b
         /\ ws[a].mgr = ws[b].mgr
         /\ IdOf(ws[a]) = IdOf(ws[b])
         /\ Live(ws[a]))
        => ~Live(ws[b])

\* C2: every stop-loss watcher enters executeSellOrder at most once, whatever
\* ticks arrive, also while the first run is awaiting the network.
C2_PipelineEnteredAtMostOnce ==
    \A s \in StopLossSockets : ws[s].runs <= 1

\* a pipeline run is awaiting the positions and its socket still delivers ticks
C2_Witness ==
    \E s \in StopLossSockets :
        /\ ws[s].runs = 1
        /\ ws[s].handlers # <<>>
        /\ ws[s].handlers[1].pc = "get"
        /\ ws[s].readyState = "OPEN"

\* C3: every alert watcher issues at most one notification (sendAlert).
C3_AlertNotifiesAtMostOnce ==
    \A s \in AlertSockets : Len(ws[s].dms) <= 1

\* C4: once a triggered stop-loss watcher's pipeline has ended, in whichever
\* terminal state, exactly one notification has been sent, to the watcher's
\* user, and the watcher is not in the registry; none is sent twice before.
C4_OneNotificationThenRemoved ==
    \A s \in StopLossSockets :
        /\ Len(ws[s].dms) <= 1
        /\ \A d \in DOMAIN ws[s].dms : ws[s].dms[d].to = ws[s].userId
        /\ PipelineDone(ws[s]) => (Len(ws[s].dms) = 1 /\ ~Registered(s))

\* one watcher has ended ORDER_FAILED and another FILLED
C4_Witness ==
    \E a \in StopLossSockets, b \in StopLossSockets :
        /\ PipelineDone(ws[a]) /\ PipelineDone(ws[b])
        /\ ws[a].posts # <<>> /\ ws[a].dms[1].title = "error"
        /\ ws[b].dms[1].title = "closed"

\* the entries of a positions body for a ticker
EntriesFor(positionsData, t) ==
    IF positionsData.has
    THEN { i \in DOMAIN positionsData.market_positions :
             positionsData.market_positions[i].ticker = t }
    ELSE {}

\* the size, in hundredths, an entry of a positions body states
SizeOf(positionsData, i) ==
    LET n == ParseFloat(positionsData.market_positions[i].position_fp)
    IN  IF n.nan THEN 0 ELSE n.v

\* C5: when the fetched positions have no entry for the watched ticker, or
\* its size is <= 0, no order is submitted for the watcher and the user is
\* notified with 'Position not found'.
C5_NoPositionNoOrder ==
    [][\A s \in StopLossSockets, r \in PositionsResponses :
          (/\ PositionsReturn(s, 1, r)
           /\ \A i \in EntriesFor(r, ws[s].marketTicker) : SizeOf(r, i) <= 0)
          => /\ ws'[s].posts = <<>>
             /\ ws'[s].handlers[1].pc = "dm"
             /\ Len(ws'[s].dms) = 1
             /\ ws'[s].dms[1].error = ErrorMessage(PositionNotFound)
             /\ ~ws'[s].dms[1].order.has]_vars

\* a pipeline has ended with 'Position not found' and nothing posted
C5_Witness ==
    \E s \in StopLossSockets :
        /\ PipelineDone(ws[s])
        /\ ws[s].posts = <<>>
        /\ Len(ws[s].dms) = 1
        /\ ws[s].dms[1].error.text = PositionNotFound

\* C6: a stop-loss watcher submits at most one order over its lifetime, also
\* after a failed submission.
C6_AtMostOneSubmission ==
    \A s \in StopLossSockets : Len(ws[s].posts) <= 1

\* a submission has failed and the socket is still open to ticks
C6_Witness ==
    \E s \in StopLossSockets :
        /\ Len(ws[s].posts) = 1
        /\ ws[s].handlers # <<>>
        /\ ws[s].handlers[1].pc = "dm"
        /\ ws[s].dms[1].title = "error"
        /\ ws[s].readyState = "OPEN"

\* the order submission of the watcher has failed
OrderFailed(w) ==
    /\ w.posts # <<>>
    /\ w.dms # <<>>
    /\ ~w.dms[1].order.has

\* C7: when the order submission throws, a notification with the reason
\* thrown is sent to the user; and when the handler has ended, the socket
\* has been closed and the watcher is not in the registry.
C7_OrderFailureNotifiedAndRemoved ==
    /\ [][\A s \in StopLossSockets, e \in Thrown :
             OrderThrow(s, 1, e)
             => /\ ws'[s].dms = <<[to |-> ws[s].userId, title |-> "error",
                                   side |-> ws[s].side,
                                   currentPrice |-> ws[s].handlers[1].currentPrice,
                                   order |-> NoOrder,
                                   error |-> ErrorMessage(e.message)]>>
                /\ ws'[s].posts = ws[s].posts]_vars
    /\ [](\A s \in StopLossSockets :
             (OrderFailed(ws[s]) /\ PipelineDone(ws[s]))
             => (~Registered(s) /\ ~Live(ws[s])))

\* a watcher has ended ORDER_FAILED with the reason 401
C7_Witness ==
    \E s \in StopLossSockets :
        /\ PipelineDone(ws[s])
        /\ OrderFailed(ws[s])
        /\ ws[s].dms[1].error.text = <<"4", "0", "1">>

\* C8: when the position fetch throws, no order is submitted and the user is
\* notified with the message of the error thrown.
C8_FetchFailureNotified ==
    [][\A s \in StopLossSockets, e \in Thrown :
          PositionsThrow(s, 1, e)
          => /\ ws'[s].posts = <<>>
             /\ Len(ws'[s].dms) = 1
             /\ ws'[s].dms[1].title = "error"
             /\ ws'[s].dms[1].error = ErrorMessage(e.message)
             /\ ws'[s].handlers[1].pc = "dm"]_vars

\* a watcher has ended FETCH_FAILED
C8_Witness ==
    \E s \in StopLossSockets :
        /\ PipelineDone(ws[s])
        /\ ws[s].posts = <<>>
        /\ Len(ws[s].dms) = 1
        /\ ws[s].dms[1].error.text \in Reasons

\* C9: an order the pipeline submits is a market order for the watcher's
\* ticker and side, for the whole size of the position fetched for it.
C9_FullExitOrder ==
    [][\A s \in StopLossSockets, r \in PositionsResponses :
          (PositionsReturn(s, 1, r) /\ ws'[s].posts # ws[s].posts)
          => \E i \in EntriesFor(r, ws[s].marketTicker) :
                ws'[s].posts = <<[ticker |-> ws[s].marketTicker,
                                  side |-> ws[s].side,
                                  type |-> "market",
                                  quantity |-> SizeOf(r, i)]>>]_vars

\* an order for 2.50 contracts of the 'no' side has been submitted and filled
C9_Witness ==
    \E s \in StopLossSockets :
        /\ PipelineDone(ws[s])
        /\ ws[s].posts # <<>>
        /\ ws[s].posts[1].quantity = 250
        /\ ws[s].posts[1].side = No
        /\ ws[s].dms[1].order.has

\* what stop(id) on the sockets `socks` and the map `reg` must return and do
StopDoes(socks, reg, id) ==
    LET first == StopResult(socks, reg, id)
        second == StopResult(first.ws, first.reg, id)
    IN  /\ first.value = (id \in DOMAIN reg)
        /\ id \notin DOMAIN first.reg
        /\ \A u \in Users : id \notin GetActive(first.reg, u)
        /\ \A k \in DOMAIN reg \ {id} :
              k \in DOMAIN first.reg /\ first.reg[k] = reg[k]
        /\ IF id \in DOMAIN reg
           THEN /\ ~Live(first.ws[reg[id]])
                /\ \A s \in DOMAIN socks \ {reg[id]} : first.ws[s] = socks[s]
           ELSE first.ws = socks /\ first.reg = reg
        /\ second = [ws |-> first.ws, reg |-> first.reg, value |-> FALSE]

\* C10: in every state, stop(key) returns true exactly when the key has an
\* entry; it closes that entry's socket and removes the key; a second stop
\* of the key returns false and closes and removes nothing.
C10_StopOnce ==
    \A w \in Watches :
        /\ StopDoes(ws, activeAlerts, MakeId(w[1], Ticker, w[2]))
        /\ StopDoes(ws, activeStopLosses, MakeId(w[1], Ticker, w[2]))

\* one key has an entry whose socket is live, the other key has none, and a
\* socket has been closed by a call and is out of the map
C10_Witness ==
    \E m \in {"alert", "stoploss"}, a \in Watches, b \in Watches :
        LET ida == MakeId(a[1], Ticker, a[2])
            idb == MakeId(b[1], Ticker, b[2])
        IN  /\ ida \in DOMAIN Registry(m)
            /\ Live(ws[Registry(m)[ida]])
            /\ idb \notin DOMAIN Registry(m)
            /\ \E s \in DOMAIN ws :
                  /\ ws[s].mgr = m
                  /\ IdOf(ws[s]) = idb
                  /\ ws[s].readyState = "CLOSING"
                  /\ ~Registered(s)

\* a newer socket has been created for the key of socket s by its manager
Replaced(s) ==
    \E t \in DOMAIN ws :
        /\ s < t
        /\ ws[t].mgr = ws[s].mgr
        /\ IdOf(ws[t]) = IdOf(ws[s])

\* C11: a watcher that start has closed and replaced by a newer watcher of
\* its key enters no trigger handler (no sendAlert, no executeSellOrder) on
\* any tick delivered afterwards.
C11_SupersededNeverFires ==
    [][\A s \in DOMAIN ws :
          (Replaced(s) /\ ~Live(ws[s])) => ws'[s].runs = ws[s].runs]_vars

\* C12: every socket that has been created and on which close() has not been
\* called (and that has not closed) is the value of its key in its manager's
\* map, so that list and stop reach it.
C12_NoDanglingConnection ==
    \A s \in DOMAIN ws : Live(ws[s]) => Registered(s)

\* the price of the watched side is present and not zero
Usable(w, msg) ==
    /\ msg.parses /\ msg.type = "market_ticker" /\ msg.hasData
    /\ msg.market_ticker = w.marketTicker
    /\ CurrentPrice(w, msg) > 0

\* C13: an alert watcher's handler takes the trigger branch on a tick with a
\* usable price p exactly when p >= basePrice * (1 + percentage / 100) in
\* exact arithmetic, equality included: at $0.50 and 10%, $0.55 triggers and
\* $0.549999 does not.
C13_AlertPolicy ==
    \A s \in AlertSockets, msg \in PolicyMessages :
        (CanReceive(ws[s]) /\ Usable(ws[s], msg))
        => LET w == ws[s]
               p == CurrentPrice(w, msg)
           IN  (ReachesCheck(w, msg) /\ AlertTriggered(w, p))
               <=> (100 * p >= w.basePrice * (100 + w.pct))

\* C14: a stop-loss watcher that has not executed takes the trigger branch on
\* a tick with a usable price p exactly when
\* p <= basePrice * (1 - percentage / 100) in exact arithmetic, equality
\* included: at $0.50 and 10%, $0.45 triggers and $0.450001 does not.
C14_StopLossPolicy ==
    \A s \in StopLossSockets, msg \in PolicyMessages :
        (CanReceive(ws[s]) /\ Usable(ws[s], msg) /\ ~ws[s].hasExecuted)
        => LET w == ws[s]
               p == CurrentPrice(w, msg)
           IN  (ReachesCheck(w, msg) /\ StopLossTriggered(w, p))
               <=> (100 * p <= w.basePrice * (100 - w.pct))

\* a tick for the watcher's ticker whose price for the watched side is
\* absent or zero
NoPrice(w, msg) ==
    /\ msg.parses /\ msg.type = "market_ticker" /\ msg.hasData
    /\ msg.market_ticker = w.marketTicker
    /\ CurrentPrice(w, msg) \in {Undefined, 0}

\* C15: the message handler of a watcher (of AlertManager, StopLossManager
\* or startPositionAlert), given a tick whose price for the watched side is
\* absent or zero, changes nothing: no trigger, no order, no notification,
\* no change to the sockets or the maps.
C15_NoPriceIgnored ==
    [][\A s \in DOMAIN ws, msg \in Messages :
          (/\ NoPrice(ws[s], msg)
           /\ \/ AlertOnMessage(s, msg)
              \/ StopLossOnMessage(s, msg)
              \/ PositionOnMessage(s, msg))
          => UNCHANGED vars]_vars

\* a registered stop-loss watcher that has not executed is open to a tick
\* with price 0 and to a tick without price for its side; so is an alert
\* watcher
C15_Witness ==
    /\ \E s \in StopLossSockets \cup AlertSockets :
          /\ ws[s].readyState = "OPEN"
          /\ Registered(s)
          /\ ~ws[s].hasExecuted
          /\ \E msg \in Messages :
                NoPrice(ws[s], msg) /\ CurrentPrice(ws[s], msg) = 0
          /\ \E msg \in Messages :
                NoPrice(ws[s], msg) /\ CurrentPrice(ws[s], msg) = Undefined

\* C16: when the delivery of a notification fails (users.fetch or user.send
\* throws), the trigger handler still resumes: afterwards close() has been
\* called on the watcher's socket, its key has no entry in the map, and the
\* handler has ended; for alert and for stop-loss watchers.
C16_DeliveryFailureCaught ==
    [][\A s \in DOMAIN ws, i \in 1..MaxRuns :
          (AlertNotified(s, i, "failed") \/ StopLossNotified(s, i, "failed"))
          => /\ ~Live(ws'[s])
             /\ IdOf(ws[s]) \notin DOMAIN activeAlerts'
             /\ IdOf(ws[s]) \notin DOMAIN activeStopLosses'
             /\ Len(ws'[s].handlers) = Len(ws[s].handlers) - 1
             /\ ws'[s].dms = ws[s].dms]_vars

\* an alert or stop-loss watcher's notification call has ended and its
\* handler has closed the socket and removed the entry
C16_Witness ==
    \E s \in DOMAIN ws :
        /\ ws[s].dms # <<>>
        /\ ws[s].handlers = <<>>
        /\ ws[s].readyState = "CLOSING"
        /\ ~Registered(s)

\* the stop-loss watcher s has a pipeline in flight and has been stopped:
\* close() was called on its socket and its key was removed
StoppedInFlight(s) ==
    /\ s \in StopLossSockets
    /\ ws[s].handlers # <<>>
    /\ ~Live(ws[s])
    /\ IdOf(ws[s]) \notin DOMAIN activeStopLosses

\* the pipeline of watcher s has run to its end with one notification
Completed(s) ==
    /\ s \in StopLossSockets
    /\ PipelineDone(ws[s])
    /\ Len(ws[s].dms) = 1

\* C17: stopStopLoss leaves a pipeline in flight as it is (it is not
\* aborted); a watcher stopped while its pipeline is in flight runs the
\* pipeline to its end; and it enters the pipeline once and sends one
\* notification at most, also on ticks arriving after the stop.
C17_StopDuringPipeline ==
    /\ [][\A w \in Watches :
             StopStopLoss(w[1], Ticker, w[2])
             => \A s \in StopLossSockets :
                   /\ ws'[s].handlers = ws[s].handlers
                   /\ ws'[s].hasExecuted = ws[s].hasExecuted
                   /\ ws'[s].posts = ws[s].posts
                   /\ ws'[s].dms = ws[s].dms]_vars
    /\ \A s \in 1..MaxWatchers : StoppedInFlight(s) ~> Completed(s)
    /\ [](\A s \in StopLossSockets :
             ws[s].runs <= 1 /\ Len(ws[s].dms) <= ws[s].runs)

\* a watcher stopped while the order submission is awaited still receives
\* ticks from its closing socket
C17_Witness ==
    \E s \in StopLossSockets :
        /\ StoppedInFlight(s)
        /\ ws[s].handlers[1].pc = "post"
        /\ ws[s].readyState = "CLOSING"
        /\ CanReceive(ws[s])

\* the keys of the map `reg` whose watcher was started for userId
OwnedBy(reg, userId) == { id \in DOMAIN reg : ws[reg[id]].userId = userId }

\* C18: getActiveAlerts(userId) / getActiveStopLosses(userId) return exactly
\* the keys of the registered watchers started for userId, for every user
\* id, also when one id is a prefix of another.
C18_ListOnlyOwn ==
    \A u \in Users :
        /\ GetActive(activeAlerts, u) = OwnedBy(activeAlerts, u)
        /\ GetActive(activeStopLosses, u) = OwnedBy(activeStopLosses, u)

\* what stopAll(userId) on the map `reg` must return and do
StopAllDoes(reg, userId) ==
    LET r == StopAllResult(ws, reg, userId)
        own == OwnedBy(reg, userId)
    IN  /\ DOMAIN r.reg = DOMAIN reg \ own
        /\ \A id \in own : ~Live(r.ws[reg[id]])
        /\ \A id \in DOMAIN reg \ own :
              r.reg[id] = reg[id] /\ r.ws[reg[id]] = ws[reg[id]]
        /\ r.value = Cardinality(own)
        /\ GetActive(r.reg, userId) = {}

\* C19: in every state, stopAll(userId) closes and removes every registered
\* watcher started for userId and no watcher of another user, returns the
\* number it removed, and leaves the list of userId empty.
C19_StopAllOnlyOwn ==
    \A u \in Users :
        StopAllDoes(activeAlerts, u) /\ StopAllDoes(activeStopLosses, u)

\* C20: an alert watcher started for side yes at basePrice $0.40 and 10%,
\* open and not yet triggered, takes the trigger branch on a tick with
\* yes_price $0.44 and sends a notification that shows $0.4400; once its
\* handler has ended it has sent exactly that one notification and is not
\* in the registry.
C20_AlertScenario ==
    \A s \in AlertSockets, msg \in PolicyMessages :
        LET w == ws[s]
        IN  (/\ w.basePrice = 400000 /\ w.pct = 10 /\ w.side = Yes
             /\ msg.market_ticker = w.marketTicker
             /\ msg.yes_price = 440000)
            => /\ (w.readyState = "OPEN" /\ w.runs = 0)
                  => /\ ReachesCheck(w, msg)
                     /\ AlertTriggered(w, CurrentPrice(w, msg))
                     /\ AlertEmbed(w, CurrentPrice(w, msg)).shown =
                            <<"$", "0", ".", "4", "4", "0", "0">>
               /\ (w.runs = 1 /\ w.handlers = <<>>
                   /\ w.dms # <<>> /\ w.dms[1].currentPrice = 440000)
                  => /\ w.dms = <<AlertEmbed(w, 440000)>>
                     /\ ~Registered(s)

\* C21: a stop-loss watcher started for side no at basePrice $0.60 and 20%,
\* open and not yet executed, takes the trigger branch on a tick with
\* no_price $0.48; with a position of 5 fetched it submits one order, of
\* quantity 5; and a notification sent after the submission has returned
\* order id O123 shows that id, the quantity 5 and the status returned.
C21_StopLossScenario ==
    \A s \in StopLossSockets :
        LET w == ws[s]
        IN  (w.basePrice = 600000 /\ w.pct = 20 /\ w.side = No)
            => /\ (w.readyState = "OPEN" /\ ~w.hasExecuted)
                  => \A msg \in PolicyMessages :
                        msg.no_price = 480000
                        => /\ ReachesCheck(w, msg)
                           /\ StopLossTriggered(w, CurrentPrice(w, msg))
               /\ w.posts \in {<<>>, <<OrderPayload(w, 500)>>}
               /\ \A d \in DOMAIN w.dms :
                     (w.dms[d].currentPrice = 480000 /\ w.dms[d].order.has)
                     => /\ w.posts = <<OrderPayload(w, 500)>>
                        /\ w.dms[d].order.order_id = OrderId
                        /\ w.dms[d].order.quantity = 500
                        /\ w.dms[d].order.status \in OrderStatuses

\* the maps of the three managers
Registries == <<activeAlerts, activeStopLosses, positionAlerts>>

\* C22: the 'close' event of a watcher's socket, whatever closed it, leaves
\* the watcher's key without an entry; when the key has no entry already
\* (after a stop or a trigger teardown) the event leaves every map as it
\* is; and a socket that has closed is never the value of a key.
C22_CloseRemovesEntry ==
    /\ [][\A s \in DOMAIN ws :
             OnClose(s)
             => /\ IdOf(ws[s]) \notin DOMAIN activeAlerts'
                /\ IdOf(ws[s]) \notin DOMAIN activeStopLosses'
                /\ (IdOf(ws[s]) \notin DOMAIN Registry(ws[s].mgr)
                    => UNCHANGED Registries)]_vars
    /\ [](\A s \in DOMAIN ws :
             ws[s].readyState = "CLOSED" => ~Registered(s))

\* the sockets of two keys have closed, one after it had opened and
\* subscribed without ever triggering, the other before it opened
C22_Witness ==
    \E a \in DOMAIN ws, b \in DOMAIN ws :
        /\ ws[a].readyState = "CLOSED" /\ ws[b].readyState = "CLOSED"
        /\ ws[a].subs # <<>> /\ ws[a].runs = 0
        /\ ws[b].subs = <<>>
        /\ IdOf(ws[a]) # IdOf(ws[b])

\* C23: a watcher that has entered no trigger handler has sent no
\* notification and posted no order, in every state, closed or not; and the
\* 'close' event of a socket changes that socket's readyState and removes
\* the entry of its key from its manager's map, nothing else.
C23_SilentDrop ==
    /\ [](\A s \in DOMAIN ws :
             ws[s].runs = 0
             => ws[s].dms = <<>> /\ ws[s].posts = <<>> /\ ws[s].handlers = <<>>)
    /\ [][\A s \in DOMAIN ws :
             OnClose(s)
             => LET id == IdOf(ws[s])
                    m == ws[s].mgr
                IN  /\ ws' = [ws EXCEPT ![s].readyState = "CLOSED"]
                    /\ activeAlerts' = IF m = "alert"
                                       THEN MapDelete(activeAlerts, id)
                                       ELSE activeAlerts
                    /\ activeStopLosses' = IF m = "stoploss"
                                           THEN MapDelete(activeStopLosses, id)
                                           ELSE activeStopLosses
                    /\ positionAlerts' = IF m = "position"
                                         THEN MapDelete(positionAlerts, id)
                                         ELSE positionAlerts]_vars

\* the connection of a subscribed watcher has dropped before any tick
\* triggered it: it has closed while its price test could still fire
C23_Witness ==
    \E s \in DOMAIN ws :
        /\ ws[s].readyState = "CLOSED"
        /\ ws[s].subs # <<>>
        /\ ws[s].runs = 0
        /\ ~ws[s].hasExecuted
        /\ ~Registered(s)

\* C24: the 'close' event of a socket and the end of a socket's trigger
\* handler remove no entry whose value is another socket: a watcher
\* registered later under the key of a stopped or superseded watcher keeps
\* its entry through the earlier watcher's events.
C24_RemovedOnlyByOwnEvents ==
    [][\A s \in DOMAIN ws :
          (\/ OnClose(s)
           \/ \E i \in 1..MaxRuns, d \in Deliveries :
                 AlertNotified(s, i, d) \/ StopLossNotified(s, i, d))
          => \A t \in DOMAIN ws \ {s} : Registered(t) => Registered(t)']_vars

\* C25: a stop-loss watcher on whose socket close() has been called while
\* its pipeline is in flight (stopStopLoss has returned) posts no order
\* afterwards: a pipeline that was fetching the position when the stop came
\* does not go on to the submission.
C25_NoOrderAfterStop ==
    [][\A s \in StopLossSockets :
          (/\ ws[s].readyState = "CLOSING"
           /\ ws[s].handlers # <<>>
           /\ IdOf(ws[s]) \notin DOMAIN activeStopLosses)
          => ws'[s].posts = ws[s].posts]_vars

\* C26: while a trigger handler of a watcher is in flight, between its
\* trigger decision and its call of close(), the watcher's socket delivers
\* no tick to the message handler, and no second handler is in flight.
C26_NoTickDuringTrigger ==
    \A s \in DOMAIN ws :
        ws[s].handlers # <<>>
        => ~CanReceive(ws[s]) /\ Len(ws[s].handlers) = 1

\* the steps of the trigger path of socket s: the message handler and the
\* continuations of its awaited calls
TriggerPath(s) ==
    \/ \E msg \in Messages :
          \/ AlertOnMessage(s, msg)
          \/ StopLossOnMessage(s, msg)
          \/ PositionOnMessage(s, msg)
    \/ \E r \in PositionsResponses : PositionsReturn(s, 1, r)
    \/ \E e \in Thrown : PositionsThrow(s, 1, e) \/ OrderThrow(s, 1, e)
    \/ \E st \in OrderStatuses, echo \in Echoes : OrderReturn(s, 1, st, echo)
    \/ \E i \in 1..MaxRuns, d \in Deliveries :
          \/ AlertNotified(s, i, d)
          \/ StopLossNotified(s, i, d)
          \/ PositionNotified(s, i, d)

\* C27: a step of a watcher's trigger path that calls close() on the socket
\* or removes the watcher's entry comes after the trigger decision (the
\* watcher has entered a trigger handler), and a step of it that removes the
\* entry leaves the socket with close() called: the entry is never removed
\* by the trigger path while the socket is still live.
C27_FireCloseRemove ==
    [][\A s \in DOMAIN ws :
          TriggerPath(s)
          => /\ (Live(ws[s]) /\ ~Live(ws'[s])) => ws'[s].runs >= 1
             /\ (Registered(s) /\ ~Registered(s)')
                => (ws'[s].runs >= 1 /\ ~Live(ws'[s]))
             /\ ws'[s].runs > ws[s].runs
                => (Registered(s) => Registered(s)')]_vars

\* the trigger handler of a registered, open watcher has ended: close() was
\* called on its socket and its entry is gone
C27_Witness ==
    \E s \in DOMAIN ws :
        /\ ws[s].runs = 1
        /\ ws[s].subs # <<>>
        /\ ws[s].handlers = <<>>
        /\ ws[s].readyState = "CLOSING"
        /\ ~Registered(s)
        /\ ws[s].dms # <<>>

\* the events of socket s: its 'open' and 'close' events and the steps of
\* its trigger path
EventOf(s) == OnOpen(s) \/ OnClose(s) \/ TriggerPath(s)

\* sockets s and t are watchers of different keys
OtherKey(s, t) == ws[s].mgr # ws[t].mgr \/ IdOf(ws[s]) # IdOf(ws[t])

\* C28: an event of socket s leaves the socket and the entry of every
\* watcher of a different key as they are; and the end of a trigger handler
\* that has reported an error (position fetch or order submission failed,
\* no position) removes no entry whose value is another socket.
C28_EventsAreLocal ==
    [][\A s \in DOMAIN ws :
          /\ EventOf(s)
             => \A t \in DOMAIN ws :
                   OtherKey(s, t)
                   => /\ ws'[t] = ws[t]
                      /\ Registered(t)' = Registered(t)
          /\ (/\ \E d \in Deliveries : StopLossNotified(s, 1, d)
              /\ ws[s].dms[1].title = "error")
             => \A t \in DOMAIN ws \ {s} :
                   Registered(t) => Registered(t)']_vars

\* the part of C28 about watchers of different keys
C28_OtherKeysUntouched ==
    [][\A s \in DOMAIN ws :
          EventOf(s)
          => \A t \in DOMAIN ws :
                OtherKey(s, t)
                => /\ ws'[t] = ws[t]
                   /\ Registered(t)' = Registered(t)]_vars

\* what start(config) on the map `reg` of manager mgr must leave behind: the
\* key mapped to a socket the call has created, which is connecting
StartDoes(mgr, reg, userId, side, privateKey) ==
    LET r == StartResult(mgr, reg, userId, Ticker, side, BasePrice, Percent,
                         privateKey)
        id == MakeId(userId, Ticker, side)
    IN  /\ id \in DOMAIN r.reg
        /\ r.reg[id] \in DOMAIN r.ws \ DOMAIN ws
        /\ r.ws[r.reg[id]].readyState = "CONNECTING"

\* C29: in every state, for every config and private key, valid or not,
\* start(config) returns with the config's key mapped to a socket created by
\* that call; in particular not to an earlier socket the call has closed.
C29_StartRegistersNew ==
    \A w \in Watches, k \in PrivateKeys :
        /\ StartDoes("alert", activeAlerts, w[1], w[2], k)
        /\ StartDoes("stoploss", activeStopLosses, w[1], w[2], k)

\* a frame that parses and is not a market_ticker message, or is one for
\* another ticker than the watcher's
Foreign(w, msg) ==
    /\ msg.parses
    /\ msg.type # "market_ticker" \/ msg.market_ticker # w.marketTicker

\* the frame carries a price for the watched side at which the watcher's
\* price test is true
PriceWouldFire(w, msg) ==
    /\ msg.hasData
    /\ CurrentPrice(w, msg) > 0
    /\ IF w.mgr = "stoploss"
       THEN StopLossTriggered(w, CurrentPrice(w, msg))
       ELSE AlertTriggered(w, CurrentPrice(w, msg))

\* C30: the message handler of a watcher, given a frame that is not of type
\* market_ticker or that is for another ticker, changes nothing, whatever
\* prices the frame carries: no trigger, no order, no notification, no
\* change to the sockets or the maps.
C30_ForeignDiscarded ==
    [][\A s \in DOMAIN ws, msg \in Messages :
          (/\ Foreign(ws[s], msg)
           /\ \/ AlertOnMessage(s, msg)
              \/ StopLossOnMessage(s, msg)
              \/ PositionOnMessage(s, msg))
          => UNCHANGED vars]_vars

\* a registered, open watcher that has not triggered can be delivered a
\* frame of another type and a tick of another ticker, each with a price
\* at which it would trigger
C30_Witness ==
    \E s \in DOMAIN ws :
        /\ ws[s].readyState = "OPEN"
        /\ Registered(s)
        /\ ws[s].runs = 0
        /\ \E msg \in Messages :
              /\ msg.parses /\ msg.type # "market_ticker"
              /\ msg.market_ticker = ws[s].marketTicker
              /\ PriceWouldFire(ws[s], msg)
        /\ \E msg \in Messages :
              /\ msg.parses /\ msg.type = "market_ticker"
              /\ msg.market_ticker # ws[s].marketTicker
              /\ PriceWouldFire(ws[s], msg)

\* C31: the message handler of a watcher, given a frame that is not JSON or
\* a market_ticker message without data, changes nothing: the watcher stays
\* registered, its socket stays as it was, and since hasExecuted and the
\* socket are as before, a later tick at a triggering price triggers it as
\* it would have.
C31_MalformedDropped ==
    [][\A s \in DOMAIN ws, msg \in Messages :
          (/\ Throws(msg)
           /\ \/ AlertOnMessage(s, msg)
              \/ StopLossOnMessage(s, msg)
              \/ PositionOnMessage(s, msg))
          => UNCHANGED vars]_vars

\* a registered, open watcher that has not triggered can be delivered a
\* frame that does not parse, a market_ticker message without data, and a
\* tick of its ticker at a price at which it triggers
C31_Witness ==
    \E s \in DOMAIN ws :
        /\ ws[s].readyState = "OPEN"
        /\ Registered(s)
        /\ ws[s].runs = 0
        /\ \E msg \in Messages : ~msg.parses
        /\ \E msg \in Messages : msg.parses /\ Throws(msg)
        /\ \E msg \in Messages :
              /\ ~Foreign(ws[s], msg) /\ ~Throws(msg)
              /\ PriceWouldFire(ws[s], msg)

\* C32: every socket has sent at most one command; a socket that has not
\* opened has sent none, delivers no tick and has triggered nothing; a
\* socket that is open, or delivers ticks, or has entered a trigger handler
\* has sent exactly the subscribe command for channel market_ticker and the
\* watcher's ticker.
C32_SubscribedOnceBeforeTicks ==
    \A s \in DOMAIN ws :
        LET w == ws[s]
        IN  /\ Len(w.subs) <= 1
            /\ w.readyState = "CONNECTING"
               => w.subs = <<>> /\ w.runs = 0 /\ ~CanReceive(w)
            /\ (w.readyState = "OPEN" \/ CanReceive(w) \/ w.runs > 0)
               => /\ w.subs = <<SubscribeCommand(w)>>
                  /\ w.subs[1].cmd = "subscribe"
                  /\ w.subs[1].channels = <<"market_ticker">>
                  /\ w.subs[1].market_ticker = w.marketTicker

\* one watcher has triggered on a tick and another has closed without ever
\* opening, so without subscribing
C32_Witness ==
    \E a \in DOMAIN ws, b \in DOMAIN ws :
        /\ ws[a].runs = 1
        /\ Len(ws[a].subs) = 1
        /\ ws[b].readyState = "CLOSED"
        /\ ws[b].subs = <<>>

\* the step is a call of startAlert or startStopLoss
StartCall ==
    \E w \in Watches, k \in PrivateKeys :
        \/ StartAlert(w[1], w[2], BasePrice, Percent, k)
        \/ StartStopLoss(w[1], w[2], BasePrice, Percent, k)

\* C33: a socket that has closed stays closed, sends nothing more and enters
\* no trigger handler; and a socket is created only by a start call: no
\* event of a socket creates one.
C33_NoReconnection ==
    /\ [][\A s \in DOMAIN ws :
             ws[s].readyState = "CLOSED"
             => /\ ws'[s].readyState = "CLOSED"
                /\ ws'[s].subs = ws[s].subs
                /\ ws'[s].runs = ws[s].runs]_vars
    /\ [][Len(ws') > Len(ws) => StartCall]_vars
    /\ [](\A s \in DOMAIN ws : ws[s].readyState = "CLOSED" => ~CanReceive(ws[s]))

\* the socket of a watcher has closed after it had opened, without a
\* trigger, and a start call has since created a new socket for its key
C33_Witness ==
    \E a \in DOMAIN ws, b \in DOMAIN ws :
        /\ a < b
        /\ ws[a].readyState = "CLOSED" /\ ws[a].subs # <<>> /\ ws[a].runs = 0
        /\ ws[b].mgr = ws[a].mgr /\ IdOf(ws[b]) = IdOf(ws[a])
        /\ Live(ws[b]) /\ Registered(b)

\* C34: when every awaited call of a trigger handler ends, a watcher whose
\* trigger handler is in flight (the decision is taken) is eventually one
\* on whose socket close() has been called (or that has closed) and whose
\* key has no entry in its manager's map; and once no handler of a
\* triggered watcher is in flight its socket is never open again; for
\* alert, stop-loss and position watchers.
C34_TriggeredTornDown ==
    /\ \A s \in 1..MaxWatchers :
          (s \in DOMAIN ws /\ ws[s].runs >= 1 /\ ws[s].handlers # <<>>)
          ~> (/\ s \in DOMAIN ws
              /\ ~Live(ws[s])
              /\ IdOf(ws[s]) \notin DOMAIN Registry(ws[s].mgr))
    /\ [](\A s \in DOMAIN ws :
            ws[s].runs >= 1 /\ ws[s].handlers = <<>> => ~Live(ws[s]))

\* a triggered watcher is awaiting its order submission, or its
\* notification, with its socket open and its key registered
C34_Witness ==
    \E s \in DOMAIN ws :
        /\ ws[s].runs >= 1
        /\ ws[s].handlers # <<>>
        /\ ws[s].handlers[1].pc \in {"post", "dm"}
        /\ ws[s].readyState = "OPEN"
        /\ Registered(s)

----------------------------------------------------------------------------
(* /alert and /stoploss commands *)

\* what kalshiUserManager.getKalshiUser resolves to: null, or a record whose
\* decrypted API key and private key may be empty
KalshiUsers ==
    [found : BOOLEAN, kalshi_api_key : {"", "key"},
     kalshi_private_key : {""} \cup PrivateKeys]

\* the 'ticker' option of a set command, as typed
CommandTickers == { <<"k", "x">>, <<"K", "-", "X">> }

UpperOf(c) == CASE c = "k" -> "K" [] c = "x" -> "X" [] OTHER -> c

\* String.prototype.toUpperCase
ToUpperCase(s) == [i \in DOMAIN s |-> UpperOf(s[i])]

\* mutant: only a null record counts as not linked
LinkedRecord(kalshiUser) == kalshiUser.found

\* the negation of
\* !kalshiUser || !kalshiUser.kalshi_api_key || !kalshiUser.kalshi_private_key
Linked(kalshiUser) ==
    /\ kalshiUser.found
    /\ kalshiUser.kalshi_api_key # ""
    /\ kalshiUser.kalshi_private_key # ""

\* the sockets and the map after a set command: the "No Kalshi Account
\* Linked" reply returns before the start call
HandleSetResult(mgr, reg, userId, ticker, side, kalshiUser) ==
    IF ~Linked(kalshiUser)
    THEN [ws |-> ws, reg |-> reg]
    ELSE StartResult(mgr, reg, userId, ToUpperCase(ticker), side,
                     BasePrice, Percent, kalshiUser.kalshi_private_key)

HandleSetAlert(userId, ticker, side, kalshiUser) ==
    /\ LET r == HandleSetResult("alert", activeAlerts, userId, ticker, side,
                                kalshiUser)
       IN  /\ ws' = r.ws
           /\ activeAlerts' = r.reg
    /\ UNCHANGED <<activeStopLosses, discordClient, positionAlerts>>

HandleSetStopLoss(userId, ticker, side, kalshiUser) ==
    /\ LET r == HandleSetResult("stoploss", activeStopLosses, userId, ticker,
                                side, kalshiUser)
       IN  /\ ws' = r.ws
           /\ activeStopLosses' = r.reg
    /\ UNCHANGED <<activeAlerts, discordClient, positionAlerts>>

\* String.prototype.split with a one-character separator
RECURSIVE Split(_, _)
Split(s, sep) ==
    LET at == { j \in DOMAIN s : s[j] = sep }
        i == IF at = {} THEN 0 ELSE CHOOSE j \in at : \A k \in at : j <= k
    IN  IF i = 0 THEN <<s>>
        ELSE <<SubSeq(s, 1, i - 1)>> \o Split(SubSeq(s, i + 1, Len(s)), sep)

\* an array element that is not there
UndefinedPart == <<"undefined">>

\* const [, ticker, side] = alertId.split('-')
ListEntry(id) ==
    LET parts == Split(id, "-")
    IN  [ticker |-> IF Len(parts) >= 2 THEN parts[2] ELSE UndefinedPart,
         side |-> IF Len(parts) >= 3 THEN parts[3] ELSE UndefinedPart]

\* the (ticker, side) lines of the list command's reply for a user
HandleList(reg, userId) == { ListEntry(id) : id \in GetActive(reg, userId) }

\* SpecCommand: the set commands of either manager with up to MaxSockets
\* watchers, for linked and unlinked users, with the stop commands
NextCommand ==
    \/ NextSocket
    \/ \E u \in Users, t \in CommandTickers, sd \in Sides, k \in KalshiUsers :
           /\ Exercised("alert")
           /\ Created("alert") < MaxSockets
           /\ HandleSetAlert(u, t, sd, k)
    \/ \E u \in Users : StopAllAlerts(u)
    \/ \E u \in Users, t \in CommandTickers, sd \in Sides, k \in KalshiUsers :
           /\ Exercised("stoploss")
           /\ Created("stoploss") < MaxSockets
           /\ HandleSetStopLoss(u, t, sd, k)
    \/ \E u \in Users : StopAllStopLosses(u)

SpecCommand == Init /\ [][NextCommand]_vars

\* C35: a set command for a user whose credential record is null, or has
\* no API key, or has no private key, leaves the sockets and the registry
\* as they are, for /alert set and /stoploss set.
C35_UnlinkedStartsNothing ==
    \A u \in Users, t \in CommandTickers, sd \in Sides, k \in KalshiUsers :
        (~k.found \/ k.kalshi_api_key = "" \/ k.kalshi_private_key = "")
        => /\ HandleSetResult("alert", activeAlerts, u, t, sd, k)
                = [ws |-> ws, reg |-> activeAlerts]
           /\ HandleSetResult("stoploss", activeStopLosses, u, t, sd, k)
                = [ws |-> ws, reg |-> activeStopLosses]

\* a watcher is registered with its stream open, and a set command for the
\* same user, ticker and side, with a record that has an API key and no
\* private key, closes and creates nothing
C35_Witness ==
    \E s \in DOMAIN ws :
        /\ Registered(s)
        /\ ws[s].readyState = "OPEN"
        /\ \E k \in KalshiUsers :
               /\ k.found /\ k.kalshi_api_key = "key"
               /\ k.kalshi_private_key = ""
               /\ HandleSetResult(ws[s].mgr, Registry(ws[s].mgr),
                                  ws[s].userId, ws[s].marketTicker,
                                  ws[s].side, k).ws = ws

\* C36: for every key the list command gets for a user, the ticker and the
\* side it derives by splitting the key on '-' are those of the watcher
\* registered under the key, for alerts and stop-losses.
C36_ListMatchesStarted ==
    \A mgr \in {"alert", "stoploss"}, u \in Users :
        \A id \in GetActive(Registry(mgr), u) :
            /\ ListEntry(id).ticker = ws[Registry(mgr)[id]].marketTicker
            /\ ListEntry(id).side = ws[Registry(mgr)[id]].side

\* C37: in the function-based manager a start for a key that is active,
\* whatever its side, leaves the sockets and the map as they are (the
\* stored socket is not closed, the entry not replaced, no socket created);
\* and a position watcher takes its trigger decision at most once and sends
\* at most one direct message.
C37_DuplicateRejectedOneDM ==
    /\ \A u \in Users, sd \in Sides :
           MakeKey(u, Ticker) \in DOMAIN positionAlerts
           => StartPositionResult(u, Ticker, sd, BasePrice, Percent)
                = [ws |-> ws, reg |-> positionAlerts]
    /\ \A s \in DOMAIN ws :
           ws[s].mgr = "position"
           => /\ ws[s].runs <= 1
              /\ Len(ws[s].handlers) <= 1
              /\ Len(ws[s].dms) <= 1

\* a position watcher has triggered and is suspended before its direct
\* message, with its stream open for further ticks and its key active
C37_Witness ==
    \E s \in DOMAIN ws :
        /\ ws[s].mgr = "position"
        /\ ws[s].hasExecuted /\ ws[s].runs = 1
        /\ Len(ws[s].handlers) = 1
        /\ ws[s].readyState = "OPEN"
        /\ Registered(s)
        /\ MakeKey(ws[s].userId, Ticker) \in DOMAIN positionAlerts

====
